---- MODULE Spec2Model ----
(***************************************************************************)
(* Model of excel-grouper (src/src/group_excel.py).                        *)
(*                                                                         *)
(* Strings are sequences of one-character strings, so that stem, suffix,   *)
(* strip, split and the "(n)" formatting are computed rather than assumed. *)
(* A path is a sequence of names relative to the scanned directory         *)
(* (app_dir): <<>> is app_dir itself, <<n>> an entry of it, <<k, n>> an    *)
(* entry of its subfolder k, <<"..">> its parent directory.                *)
(* The log sink and the configuration file are kept out of the modelled    *)
(* directory tree: the configuration is cfg, and log holds the records the *)
(* current pass has appended to the log file (from its START record on).   *)
(***************************************************************************)
EXTENDS Integers, Sequences, FiniteSets, TLC

VARIABLES
  fs,         \* the directory tree: path -> node
  fs0,        \* the tree before the first pass
  snap,       \* the tree when the current pass listed app_dir
  cfg,        \* the configuration load_config returned
  pc,         \* where main() is: "init", "loop", "prompt", "done"
  todo,       \* the entries of the listing not yet iterated
  processed, skipped, errors,
  log,        \* the records the current pass has logged
  status,     \* what main() returned: None until it returns
  runs,       \* the number of passes started
  outcome,    \* per pass and entry, the terminal state and destination
  call        \* the last direct call of extract_prefix or safe_copy_or_move

vars == <<fs, fs0, snap, cfg, pc, todo, processed, skipped, errors, log,
          status, runs, outcome, call>>

-----------------------------------------------------------------------------
(* Bounds of the model *)

\* entries placed in app_dir by Init
MaxFiles == 2
\* passes of main() over the same directory
MaxRuns == 2
\* a pass is started only while app_dir holds at most this many entries
MaxEntries == 5
\* length of the stems enumerated for extract_prefix
MaxStemLen == 3
\* direct calls of safe_copy_or_move in SpecPlace
MaxCalls == 3

-----------------------------------------------------------------------------
(* String helpers: Python str and pathlib.PurePath operations *)

XLS == <<".", "x", "l", "s">>
XLSM == <<".", "x", "l", "s", "m">>
XLSX == <<".", "x", "l", "s", "x">>
XLS_UPPER == <<".", "X", "L", "S">>

EXCEL_EXTS == {XLSX, XLSM, XLS}

CONFIG_FILENAME == <<"c", "o", "n", "f", "i", "g", ".", "j", "s", "o", "n">>
LOG_FILENAME == <<"e", "x", "c", "e", "l", "_", "g", "r", "o", "u", "p", "e", "r",
                  ".", "l", "o", "g">>
UNGROUPED == <<"U", "N", "G", "R", "O", "U", "P", "E", "D">>

Dot == <<".">>
DotDot == <<".", ".">>

\* str.isspace for the characters of the model
Whitespace == {" "}

\* str.lower, one character
LowerChar(ch) ==
  CASE ch = "X" -> "x"
    [] ch = "L" -> "l"
    [] ch = "S" -> "s"
    [] ch = "M" -> "m"
    [] OTHER -> ch

lower(s) == [i \in 1..Len(s) |-> LowerChar(s[i])]

SetMin(S) == CHOOSE x \in S : \A y \in S : x <= y
SetMax(S) == CHOOSE x \in S : \A y \in S : y <= x

\* str.strip(): leading and trailing whitespace removed
strip(s) ==
  LET keep == {i \in 1..Len(s) : s[i] \notin Whitespace}
  IN IF keep = {} THEN <<>> ELSE SubSeq(s, SetMin(keep), SetMax(keep))

\* str.rfind(ch), 1-based, 0 when absent
RFind(s, ch) ==
  LET at == {i \in 1..Len(s) : s[i] = ch}
  IN IF at = {} THEN 0 ELSE SetMax(at)

\* str.find(d), 1-based, 0 when absent; the empty string is found at 1
Find(s, d) ==
  LET at == {i \in 1..(Len(s) - Len(d) + 1) : SubSeq(s, i, i + Len(d) - 1) = d}
  IN IF at = {} THEN 0 ELSE SetMin(at)

\* PurePath.suffix: the last dot and what follows, unless the dot is the
\* first or the last character of the name
suffix(name) ==
  LET i == RFind(name, ".")
  IN IF 1 < i /\ i < Len(name) THEN SubSeq(name, i, Len(name)) ELSE <<>>

\* PurePath.stem: the name without its suffix
stem(name) ==
  LET i == RFind(name, ".")
  IN IF 1 < i /\ i < Len(name) THEN SubSeq(name, 1, i - 1) ELSE name

Digit(d) ==
  CASE d = 0 -> "0" [] d = 1 -> "1" [] d = 2 -> "2" [] d = 3 -> "3"
    [] d = 4 -> "4" [] d = 5 -> "5" [] d = 6 -> "6" [] d = 7 -> "7"
    [] d = 8 -> "8" [] d = 9 -> "9"

\* str(i) of a non-negative int, as the f-string formats it
RECURSIVE IntToStr(_)
IntToStr(i) ==
  IF i < 10 THEN <<Digit(i)>> ELSE IntToStr(i \div 10) \o <<Digit(i % 10)>>

\* Optional values: None is <<>>, a value v is <<v>>
None == <<>>
Some(v) == <<v>>

-----------------------------------------------------------------------------
(* extract_prefix *)

\* The patterns of the model, by their text
RegexDefault == "^(.+?)[ _-]"
RegexInvalid == "("
RegexNoGroup == "^a"

\* re.search(pattern, base) followed by m.group(1): "raised" when compiling
\* the pattern or reading group 1 raises, "nomatch" when m is None,
\* "match" with the text of group 1 otherwise
re_search_group1(pattern, base) ==
  CASE pattern = RegexDefault ->
         LET at == {i \in 2..Len(base) : base[i] \in {" ", "_", "-"}}
         IN IF at = {} THEN [res |-> "nomatch", g |-> <<>>]
            ELSE [res |-> "match", g |-> SubSeq(base, 1, SetMin(at) - 1)]
    [] pattern = RegexNoGroup ->
         IF Len(base) >= 1 /\ base[1] = "a"
           THEN [res |-> "raised", g |-> <<>>]
           ELSE [res |-> "nomatch", g |-> <<>>]
    [] OTHER -> [res |-> "raised", g |-> <<>>]

\* lines 83-90: the regex branch; every exception ends in None
extract_regex(base, c) ==
  LET m == re_search_group1(c.regex_pattern, base)
  IN IF m.res = "match" /\ strip(m.g) # <<>> THEN Some(strip(m.g)) ELSE None

\* a variant that splits at the LAST occurrence of the delimiter (rsplit)
extract_delim_rsplit(base, c) ==
  LET delim == c.delimiter
      at == {i \in 1..(Len(base) - Len(delim) + 1) :
               SubSeq(base, i, i + Len(delim) - 1) = delim}
  IN IF delim # <<>> /\ at # {}
       THEN LET prefix == strip(SubSeq(base, 1, SetMax(at) - 1))
            IN IF prefix # <<>> THEN Some(prefix) ELSE None
       ELSE IF strip(base) # <<>> THEN Some(strip(base)) ELSE None

\* lines 92-97: the delimiter branch
extract_delim(base, c) ==
  LET delim == c.delimiter
  IN IF delim # <<>> /\ Find(base, delim) # 0
       THEN LET prefix == strip(SubSeq(base, 1, Find(base, delim) - 1))
            IN IF prefix # <<>> THEN Some(prefix) ELSE None
       ELSE IF strip(base) # <<>> THEN Some(strip(base)) ELSE None

extract_prefix(filename, c) ==
  LET base == stem(filename)
  IN IF c.use_regex THEN extract_regex(base, c) ELSE extract_delim(base, c)

-----------------------------------------------------------------------------
(* The directory tree *)

\* The name of app_dir itself (Path.name of the scanned directory)
APP_NAME == <<"w">>

FileNode(d) == [kind |-> "file", data |-> d]
DirNode == [kind |-> "dir", data |-> <<>>]

\* Path.exists(): app_dir and its parent always exist
Exists(fsys, p) == p = <<>> \/ p = <<DotDot>> \/ p \in DOMAIN fsys

IsDir(fsys, p) ==
  p = <<>> \/ p = <<DotDot>> \/ (p \in DOMAIN fsys /\ fsys[p].kind = "dir")

\* Path.is_file()
IsFile(fsys, p) == p \in DOMAIN fsys /\ fsys[p].kind = "file"

\* app_dir / prefix: pathlib drops a "." component and keeps ".."
JoinAppDir(prefix) == IF prefix = Dot THEN <<>> ELSE <<prefix>>

\* the directory a path lies in
Parent(p) == SubSeq(p, 1, Len(p) - 1)

\* Path.name
PathName(p) == IF p = <<>> THEN APP_NAME ELSE p[Len(p)]

\* os.listdir(app_dir): the names of the entries of app_dir
ListDir(fsys) == {p[1] : p \in {q \in DOMAIN fsys : Len(q) = 1 /\ q # <<DotDot>>}}

\* fsys without the entry at p
Remove(fsys, p) == [q \in (DOMAIN fsys) \ {p} |-> fsys[q]]

-----------------------------------------------------------------------------
(* safe_copy_or_move *)

\* line 107: f"{src.stem}({i}){src.suffix}"
Numbered(name, i) == stem(name) \o <<"(">> \o IntToStr(i) \o <<")">> \o suffix(name)

\* lines 105-108: the first path of dst, name(1), name(2), ... that does not exist
RECURSIVE ResolveDst(_, _, _, _, _)
ResolveDst(fsys, dst_dir, name, dst, i) ==
  IF Exists(fsys, dst)
    THEN ResolveDst(fsys, dst_dir, name, dst_dir \o <<Numbered(name, i)>>, i + 1)
    ELSE dst

\* a variant without the existence loop: always dst_dir / src.name
FirstDst_noloop(fsys, dst_dir, name) == dst_dir \o <<name>>

\* lines 103-108
FirstDst(fsys, dst_dir, name) ==
  ResolveDst(fsys, dst_dir, name, dst_dir \o <<name>>, 1)

\* line 102: dst_dir.mkdir(exist_ok=True); raises when dst_dir exists and is
\* not a directory, or when its parent is not an existing directory
Mkdir(fsys, dst_dir) ==
  IF IsDir(fsys, dst_dir) THEN [raised |-> FALSE, exc |-> "", fs |-> fsys]
  ELSE IF Exists(fsys, dst_dir) THEN [raised |-> TRUE, exc |-> "FileExistsError", fs |-> fsys]
  ELSE IF ~Exists(fsys, Parent(dst_dir))
    THEN [raised |-> TRUE, exc |-> "FileNotFoundError", fs |-> fsys]
  ELSE IF ~IsDir(fsys, Parent(dst_dir))
    THEN [raised |-> TRUE, exc |-> "NotADirectoryError", fs |-> fsys]
  ELSE [raised |-> FALSE, exc |-> "", fs |-> (dst_dir :> DirNode) @@ fsys]

\* a variant in which every mode moves
Transfer_alwaysmove(fsys, src, dst, mode) == (dst :> fsys[src]) @@ Remove(fsys, src)

\* lines 110-113: shutil.copy2 leaves src and writes dst with the same
\* content; shutil.move (any mode but "copy") renames src to dst
Transfer(fsys, src, dst, mode) ==
  IF mode = "copy"
    THEN (dst :> fsys[src]) @@ fsys
    ELSE (dst :> fsys[src]) @@ Remove(fsys, src)

\* lines 100-115, for src an existing regular file
safe_copy_or_move(fsys, src, dst_dir, mode) ==
  LET made == Mkdir(fsys, dst_dir)
  IN IF made.raised
       THEN [raised |-> TRUE, exc |-> made.exc, fs |-> made.fs, dst |-> <<>>]
       ELSE LET dst == FirstDst(made.fs, dst_dir, PathName(src))
            IN [raised |-> FALSE, exc |-> "",
                fs |-> Transfer(made.fs, src, dst, mode), dst |-> dst]

-----------------------------------------------------------------------------
(* main: the pass over app_dir *)

\* log_line: one record of the log
LogRec(kind, name, folder, exc, counts) ==
  [kind |-> kind, name |-> name, folder |-> folder, exc |-> exc, counts |-> counts]

\* what one iteration of the loop yields: the new tree, the counter
\* increments, the records logged, the file's terminal state and where the
\* control goes next
Iter(fsys, dp, ds, de, recs, state, key, dst_dir, dst, next) ==
  [fs |-> fsys, dproc |-> dp, dskip |-> ds, derr |-> de, recs |-> recs,
   state |-> state, key |-> key, dst_dir |-> dst_dir, dst |-> dst, pc |-> next]

\* lines 136-141: the three filters of the loop
Eligible(fsys, name) ==
  /\ IsFile(fsys, <<name>>)
  /\ lower(suffix(name)) \in EXCEL_EXTS
  /\ name \notin {CONFIG_FILENAME, LOG_FILENAME}

\* line 150: the fallback key
FallbackKey(name) ==
  IF strip(stem(name)) # <<>> THEN strip(stem(name)) ELSE UNGROUPED

\* a variant that never skips
ChooseKey_noskip(name, c) ==
  LET prefix == extract_prefix(name, c)
  IN IF prefix = None \/ prefix = Some(<<>>)
       THEN Some(FallbackKey(name))
       ELSE prefix

\* lines 143-150: the key the file is grouped under, None when it is skipped
ChooseKey(name, c) ==
  LET prefix == extract_prefix(name, c)
  IN IF prefix = None \/ prefix = Some(<<>>)
       THEN IF c.skip_if_no_prefix THEN None ELSE Some(FallbackKey(name))
       ELSE prefix

\* a variant in which the exception leaves the loop
ExceptClause_propagate(name, key, dst_dir, r) ==
  Iter(r.fs, 0, 0, 0, <<>>, "Errored", key, dst_dir, <<>>, "crashed")

\* lines 157-159: except Exception
ExceptClause(name, key, dst_dir, r) ==
  Iter(r.fs, 0, 0, 1, <<LogRec("ERROR", name, <<>>, r.exc, <<>>)>>,
       "Errored", key, dst_dir, <<>>, "loop")

\* a variant that counts a skipped file as processed
SkipClause_miscount(fsys, name) ==
  Iter(fsys, 1, 0, 0, <<LogRec("SKIP", name, <<>>, "", <<>>)>>,
       "Skipped", None, <<>>, <<>>, "loop")

\* lines 147-149
SkipClause(fsys, name) ==
  Iter(fsys, 0, 1, 0, <<LogRec("SKIP", name, <<>>, "", <<>>)>>,
       "Skipped", None, <<>>, <<>>, "loop")

\* lines 152-155
PlaceClause(fsys, c, name, key) ==
  LET dst_dir == JoinAppDir(key)
      r == safe_copy_or_move(fsys, <<name>>, dst_dir, c.mode)
  IN IF r.raised
       THEN ExceptClause(name, Some(key), dst_dir, r)
       ELSE Iter(r.fs, 1, 0, 0,
                 <<LogRec("DONE", name, PathName(dst_dir), "", <<>>)>>,
                 "Processed", Some(key), dst_dir, r.dst, "loop")

\* lines 135-159: the body of the loop for one directory entry
LoopBody(fsys, c, name) ==
  IF ~Eligible(fsys, name)
    THEN Iter(fsys, 0, 0, 0, <<>>, "Ignored", None, <<>>, <<>>, "loop")
    ELSE LET key == ChooseKey(name, c)
         IN IF key = None
              THEN SkipClause(fsys, name)
              ELSE PlaceClause(fsys, c, name, key[1])

\* a variant that always reports success
ExitStatus_always0(e) == 0

\* line 177
ExitStatus(e) == IF e = 0 THEN 0 ELSE 1

\* lines 119-134: START is logged, the counters start at 0 and iterdir() lists
\* the directory
Main_Start ==
  /\ pc \in {"init", "done"}
  /\ runs < MaxRuns
  /\ Cardinality(ListDir(fs)) <= MaxEntries
  /\ runs' = runs + 1
  /\ processed' = 0
  /\ skipped' = 0
  /\ errors' = 0
  /\ status' = None
  /\ log' = <<LogRec("START", <<>>, <<>>, "", <<>>)>>
  /\ todo' = ListDir(fs)
  /\ pc' = "loop"
  /\ UNCHANGED <<fs, fs0, cfg, outcome, call>>
  /\ snap' = fs

\* lines 134-159: one iteration, on any entry not yet visited (the order of
\* iterdir() is arbitrary)
Main_Iter ==
  /\ pc = "loop"
  /\ \E name \in todo :
       LET r == LoopBody(fs, cfg, name)
       IN /\ fs' = r.fs
          /\ processed' = processed + r.dproc
          /\ skipped' = skipped + r.dskip
          /\ errors' = errors + r.derr
          /\ log' = log \o r.recs
          /\ todo' = todo \ {name}
          /\ outcome' = outcome \cup
               {[run |-> runs, name |-> name, state |-> r.state, key |-> r.key,
                 dst_dir |-> r.dst_dir, dst |-> r.dst]}
          /\ pc' = r.pc
  /\ UNCHANGED <<fs0, snap, cfg, status, runs, call>>

\* line 161: the END record
Main_End ==
  /\ pc = "loop"
  /\ todo = {}
  /\ log' = Append(log, LogRec("END", <<>>, <<>>, "", <<processed, skipped, errors>>))
  /\ pc' = "prompt"
  /\ UNCHANGED <<fs, fs0, snap, cfg, todo, processed, skipped, errors, status, runs,
                 outcome, call>>

\* lines 163-177: the summary is printed and the status returned
Main_Return ==
  /\ pc = "prompt"
  /\ status' = Some(ExitStatus(errors))
  /\ pc' = "done"
  /\ UNCHANGED <<fs, fs0, snap, cfg, todo, processed, skipped, errors, log, runs,
                 outcome, call>>

-----------------------------------------------------------------------------
(* Initial directories and configurations *)

N_a_1_xls == <<"a", "_", "1">> \o XLS
N_a == <<"a">>
N_a_xls == <<"a">> \o XLS
N_a_xls_1_XLS == <<"a">> \o XLS \o <<"_", "1">> \o XLS_UPPER
N_dot_b_xls == <<".", "_", "b">> \o XLS
N_dotdot_b_xls == <<".", ".", "_", "b">> \o XLS
N_space_xls == <<" ">> \o XLS

\* a regular file at path p; its content is identified by where it started
FileAt(p) == p :> FileNode(p)

\* The pieces an initial directory is assembled from
Pool ==
  { FileAt(<<N_a_1_xls>>),
    FileAt(<<N_a>>),
    (<<N_a>> :> DirNode) @@ FileAt(<<N_a, N_a_1_xls>>),
    FileAt(<<N_a_xls>>),
    FileAt(<<N_a_xls_1_XLS>>),
    FileAt(<<N_dot_b_xls>>),
    FileAt(<<N_dotdot_b_xls>>),
    FileAt(<<N_space_xls>>) }

RECURSIVE Merge(_)
Merge(S) ==
  IF S = {} THEN <<>>
  ELSE LET f == CHOOSE x \in S : TRUE IN f @@ Merge(S \ {f})

InitialTrees ==
  { Merge(S) : S \in { T \in SUBSET Pool :
                         /\ Cardinality(T) <= MaxFiles
                         /\ \A f, g \in T : f # g => DOMAIN f \cap DOMAIN g = {} } }

\* Configurations as load_config returns them (lines 46-53)
Config(delimiter, use_regex, regex_pattern, mode, skip) ==
  [delimiter |-> delimiter, use_regex |-> use_regex, regex_pattern |-> regex_pattern,
   mode |-> mode, skip_if_no_prefix |-> skip]

Extractions ==
  { <<FALSE, <<"_">>, RegexDefault>>,
    <<TRUE, <<"_">>, RegexDefault>>,
    <<TRUE, <<"_">>, RegexInvalid>> }

Configs ==
  { Config(x[2], x[1], x[3], mode, skip) :
      x \in Extractions, mode \in {"move", "copy"}, skip \in BOOLEAN }

NoCall == [op |-> "none", args |-> <<>>, ret |-> <<>>, pre |-> <<>>, n |-> 0]

Init ==
  /\ fs \in InitialTrees
  /\ fs0 = fs
  /\ snap = fs
  /\ cfg \in Configs
  /\ pc = "init"
  /\ todo = {}
  /\ processed = 0
  /\ skipped = 0
  /\ errors = 0
  /\ log = <<>>
  /\ status = None
  /\ runs = 0
  /\ outcome = {}
  /\ call = NoCall

Next == Main_Start \/ Main_Iter \/ Main_End \/ Main_Return

Spec == Init /\ [][Next]_vars

-----------------------------------------------------------------------------
(* extract_prefix called on its own *)

StemChars == {"a", "_", " ", "."}

RECURSIVE SeqsUpTo(_)
SeqsUpTo(n) ==
  IF n = 0 THEN {<<>>}
  ELSE LET shorter == SeqsUpTo(n - 1)
       IN shorter \cup {Append(q, ch) : q \in shorter, ch \in StemChars}

\* file names: every short stem, with and without a spreadsheet extension
ExtractNames == {q \o e : q \in SeqsUpTo(MaxStemLen), e \in {XLS, <<>>}}

ExtractConfigs ==
  { Config(d, FALSE, RegexDefault, "move", FALSE) :
      d \in {<<>>, <<"_">>, <<" ">>, <<"a", "_">>} }
  \cup
  { Config(<<"_">>, TRUE, r, "move", FALSE) :
      r \in {RegexDefault, RegexInvalid, RegexNoGroup} }

InitExtract ==
  /\ fs = <<>>
  /\ fs0 = <<>>
  /\ snap = <<>>
  /\ cfg \in ExtractConfigs
  /\ pc = "extract"
  /\ todo = {}
  /\ processed = 0
  /\ skipped = 0
  /\ errors = 0
  /\ log = <<>>
  /\ status = None
  /\ runs = 0
  /\ outcome = {}
  /\ \E f \in ExtractNames :
       call = [op |-> "extract", args |-> <<f>>, ret |-> <<>>, pre |-> <<>>, n |-> 0]

Extract_Call ==
  /\ pc = "extract"
  /\ call' = [call EXCEPT !.ret = extract_prefix(call.args[1], cfg), !.n = 1]
  /\ pc' = "extracted"
  /\ UNCHANGED <<fs, fs0, snap, cfg, todo, processed, skipped, errors, log, status,
                 runs, outcome>>

NextExtract == Extract_Call

SpecExtract == InitExtract /\ [][NextExtract]_vars

-----------------------------------------------------------------------------
(* safe_copy_or_move called on its own *)

N_b == <<"b">>

PlaceTrees ==
  { FileAt(<<N_a_1_xls>>),
    FileAt(<<N_a_1_xls>>) @@ (<<N_a>> :> DirNode) @@ FileAt(<<N_a, N_a_1_xls>>),
    FileAt(<<N_a_1_xls>>) @@ FileAt(<<N_a>>),
    FileAt(<<N_a_1_xls>>) @@ (<<N_a>> :> DirNode)
      @@ FileAt(<<N_a, <<"a", "_", "1", "(", "1", ")">> \o XLS>>) }

PlaceDirs == {<<N_a>>, <<N_b>>, <<N_b, N_a>>}

PlaceModes == {"copy", "move", "link"}

Files(fsys) == {p \in DOMAIN fsys : fsys[p].kind = "file"}

InitPlace ==
  /\ fs \in PlaceTrees
  /\ fs0 = fs
  /\ snap = fs
  /\ cfg = Config(<<"_">>, FALSE, RegexDefault, "move", FALSE)
  /\ pc = "place"
  /\ todo = {}
  /\ processed = 0
  /\ skipped = 0
  /\ errors = 0
  /\ log = <<>>
  /\ status = None
  /\ runs = 0
  /\ outcome = {}
  /\ call = NoCall

Place_Call ==
  /\ pc = "place"
  /\ call.n < MaxCalls
  /\ \E src \in Files(fs), dst_dir \in PlaceDirs, mode \in PlaceModes :
       LET r == safe_copy_or_move(fs, src, dst_dir, mode)
       IN /\ fs' = r.fs
          /\ call' = [op |-> "place", args |-> <<src, dst_dir, mode>>,
                      ret |-> [raised |-> r.raised, exc |-> r.exc, dst |-> r.dst],
                      pre |-> fs, n |-> call.n + 1]
  /\ UNCHANGED <<fs0, snap, cfg, pc, todo, processed, skipped, errors, log, status,
                 runs, outcome>>

NextPlace == Place_Call

SpecPlace == InitPlace /\ [][NextPlace]_vars

-----------------------------------------------------------------------------
(* Properties of extract_prefix, under SpecExtract *)

\* d occurs in s at position i
OccursAt(s, d, i) ==
  /\ i >= 1
  /\ i + Len(d) - 1 <= Len(s)
  /\ \A k \in 1..Len(d) : s[i + k - 1] = d[k]

\* t is s without its leading and trailing whitespace
IsTrimOf(t, s) ==
  \E i \in 1..(Len(s) + 1) : \E j \in (i - 1)..Len(s) :
    /\ Len(t) = j - i + 1
    /\ \A k \in 1..Len(t) : t[k] = s[i + k - 1]
    /\ \A k \in 1..(i - 1) : s[k] \in Whitespace
    /\ \A k \in (j + 1)..Len(s) : s[k] \in Whitespace
    /\ (t = <<>> \/ (t[1] \notin Whitespace /\ t[Len(t)] \notin Whitespace))

\* ret is the key made of s trimmed, NoKey when that is empty
IsKeyOf(ret, s) ==
  IF ret = None THEN IsTrimOf(<<>>, s) ELSE ret[1] # <<>> /\ IsTrimOf(ret[1], s)

\* C8: in delimiter mode, when the delimiter is non-empty and occurs in the
\* stem, the result is the trimmed text before its first occurrence (NoKey
\* when that is empty); otherwise it is the trimmed stem (NoKey when empty);
\* the result is never an empty or whitespace-only key.
C8_DelimiterExtraction ==
  (pc = "extracted" /\ ~cfg.use_regex) =>
    LET base == stem(call.args[1])
        d == cfg.delimiter
        ret == call.ret
        occ == {i \in 1..Len(base) : OccursAt(base, d, i)}
    IN /\ IF d # <<>> /\ occ # {}
            THEN \E i \in occ :
                   /\ \A j \in occ : i <= j
                   /\ IsKeyOf(ret, [k \in 1..(i - 1) |-> base[k]])
            ELSE IsKeyOf(ret, base)
       /\ ret # None => \E k \in 1..Len(ret[1]) : ret[1][k] \notin Whitespace

\* " a_.xls" with delimiter "_": the text before the delimiter, trimmed
C8_Witness ==
  /\ pc = "extracted"
  /\ ~cfg.use_regex
  /\ cfg.delimiter = <<"_">>
  /\ call.args[1] = <<" ", "a", "_">> \o XLS
  /\ call.ret = Some(<<"a">>)

\* " __.xls": what precedes the first of two delimiters trims to nothing
C8_WitnessNoKey ==
  /\ pc = "extracted"
  /\ ~cfg.use_regex
  /\ cfg.delimiter = <<"_">>
  /\ call.args[1] = <<" ", "_", "_">> \o XLS
  /\ call.ret = None

-----------------------------------------------------------------------------
(* Properties of safe_copy_or_move, under SpecPlace *)

PlacedOk == call.op = "place" /\ ~call.ret.raised

\* C2: the file is placed at dst_dir/name when that path is unused, and
\* otherwise at name(n).ext for the smallest n >= 1 whose path is unused;
\* the path written did not exist before, and no entry that existed before
\* (other than the source of a move) is changed.
C2_CollisionResolution ==
  PlacedOk =>
    LET src == call.args[1]
        dst_dir == call.args[2]
        name == src[Len(src)]
        dst == call.ret.dst
        pre == call.pre
    IN /\ dst \notin DOMAIN pre
       /\ dst \in DOMAIN fs
       /\ \A p \in (DOMAIN pre) \ {src} : p \in DOMAIN fs /\ fs[p] = pre[p]
       /\ IF dst_dir \o <<name>> \notin DOMAIN pre
            THEN dst = dst_dir \o <<name>>
            ELSE \E n \in 1..Cardinality(DOMAIN pre) :
                   /\ dst = dst_dir \o <<stem(name) \o <<"(">> \o IntToStr(n)
                                          \o <<")">> \o suffix(name)>>
                   /\ \A m \in 1..(n - 1) :
                        dst_dir \o <<stem(name) \o <<"(">> \o IntToStr(m)
                                       \o <<")">> \o suffix(name)>> \in DOMAIN pre

\* a third same-named file lands at a/a_1(2).xls, beside a_1.xls and a_1(1).xls
C2_Witness ==
  /\ PlacedOk
  /\ call.args[2] = <<N_a>>
  /\ call.ret.dst = <<N_a, <<"a", "_", "1", "(", "2", ")", ".", "x", "l", "s">>>>
  /\ <<N_a, N_a_1_xls>> \in DOMAIN call.pre
  /\ <<N_a, <<"a", "_", "1", "(", "1", ")", ".", "x", "l", "s">>>> \in DOMAIN call.pre

\* C7: after a successful copy the source is unchanged at its path and the
\* returned path holds a duplicate; after a successful move (any mode but
\* "copy") the returned path holds the file and the source path is gone; in
\* both no other entry is lost or changed.
C7_ModeSemantics ==
  PlacedOk =>
    LET src == call.args[1]
        dst_dir == call.args[2]
        mode == call.args[3]
        dst == call.ret.dst
        pre == call.pre
    IN /\ dst \in DOMAIN fs /\ fs[dst] = pre[src]
       /\ dst # src
       /\ IF mode = "copy"
            THEN src \in DOMAIN fs /\ fs[src] = pre[src]
            ELSE src \notin DOMAIN fs
       /\ \A p \in (DOMAIN pre) \ {src} : p \in DOMAIN fs /\ fs[p] = pre[p]
       /\ DOMAIN fs \subseteq (DOMAIN pre) \cup {dst, dst_dir}
       /\ \A p \in Files(pre) : \E q \in Files(fs) : fs[q].data = pre[p].data

\* a mode that is neither "copy" nor "move" has moved a file
C7_Witness ==
  /\ PlacedOk
  /\ call.args[3] = "link"
  /\ call.args[1] \notin DOMAIN fs
  /\ call.ret.dst \in DOMAIN fs

\* a copy has left its source in place
C7_WitnessCopy ==
  /\ PlacedOk
  /\ call.args[3] = "copy"
  /\ call.args[1] \in DOMAIN fs
  /\ call.ret.dst \in DOMAIN fs

-----------------------------------------------------------------------------
(* Properties of the pass, under Spec *)

\* the outcomes recorded by pass r
Out(r) == {o \in outcome : o.run = r}

OutIn(r, state) == {o \in Out(r) : o.state = state}

\* the END record has been written
Ended == pc \in {"prompt", "done"}

\* an entry of the listing is eligible: a regular file with a spreadsheet
\* extension whose name is not reserved
EligibleEntry(name) ==
  /\ <<name>> \in DOMAIN snap
  /\ snap[<<name>>].kind = "file"
  /\ \E ext \in {XLSX, XLSM, XLS} : lower(suffix(name)) = ext
  /\ name # CONFIG_FILENAME
  /\ name # LOG_FILENAME

Records(kind) == {i \in 1..Len(log) : log[i].kind = kind}

\* C1: a file whose placement raises ends Errored, is counted in errors and
\* gets an ERROR record naming it; the pass is never halted by it, and at the
\* END record every entry of the listing has been attempted exactly once and
\* counted in its own terminal state.
C1_ErrorIsolation ==
  /\ pc # "crashed"
  /\ \A o \in OutIn(runs, "Errored") :
       \E i \in Records("ERROR") : log[i].name = o.name
  /\ errors = Cardinality(OutIn(runs, "Errored"))
  /\ Ended =>
       /\ todo = {}
       /\ \A n \in ListDir(snap) :
            Cardinality({o \in Out(runs) : o.name = n}) = 1
       /\ processed = Cardinality(OutIn(runs, "Processed"))
       /\ skipped = Cardinality(OutIn(runs, "Skipped"))
       /\ \A o \in Out(runs) :
            EligibleEntry(o.name) => o.state \in {"Processed", "Skipped", "Errored"}

\* a pass has ended in which one file errored and a later one was placed
C1_Witness ==
  /\ pc = "done"
  /\ \E i \in Records("ERROR") : \E j \in Records("DONE") : i < j
  /\ errors = 1
  /\ processed >= 1

\* C4: each eligible entry changes exactly one counter, once and by 1, and
\* ineligible entries change none: every counter equals the number of files
\* in its terminal state, and at the end of the pass their sum is the number
\* of eligible entries listed and the one END record carries the final values.
C4_CounterAccounting ==
  /\ processed = Cardinality(OutIn(runs, "Processed"))
  /\ skipped = Cardinality(OutIn(runs, "Skipped"))
  /\ errors = Cardinality(OutIn(runs, "Errored"))
  /\ \A o \in Out(runs) : o.state = "Ignored" <=> ~EligibleEntry(o.name)
  /\ \A o1, o2 \in Out(runs) : o1.name = o2.name => o1 = o2
  /\ Ended =>
       /\ processed + skipped + errors =
            Cardinality({n \in ListDir(snap) : EligibleEntry(n)})
       /\ Records("END") = {Len(log)}
       /\ log[Len(log)].counts = <<processed, skipped, errors>>
  /\ ~Ended => Records("END") = {}

\* a pass has ended with an ignored entry and all three counters used
C4_Witness ==
  /\ pc = "done"
  /\ OutIn(runs, "Ignored") # {}
  /\ processed + skipped + errors >= 2
  /\ skipped >= 1

\* the step of the loop on entry name
IterOn(name) == pc = "loop" /\ name \in todo /\ todo' = todo \ {name}

\* C5: an eligible file without a key is Skipped when skipIfNoPrefix is true:
\* the tree is left as it was, skipped grows by one and a SKIP record is
\* logged; when skipIfNoPrefix is false, skipped stays 0 and the file is
\* placed under its trimmed stem, or under UNGROUPED when that is empty.
C5_NoKeyStep ==
  \A name \in todo :
    (IterOn(name) /\ Eligible(fs, name) /\ extract_prefix(name, cfg) = None) =>
      \E o \in outcome' \ outcome :
        /\ o.name = name
        /\ IF cfg.skip_if_no_prefix
             THEN /\ o.state = "Skipped"
                  /\ fs' = fs
                  /\ skipped' = skipped + 1
                  /\ processed' = processed
                  /\ errors' = errors
                  /\ Len(log') = Len(log) + 1
                  /\ log'[Len(log')].kind = "SKIP"
                  /\ log'[Len(log')].name = name
             ELSE /\ o.state \in {"Processed", "Errored"}
                  /\ skipped' = skipped
                  /\ LET trimmed == strip(stem(name))
                         folder == IF trimmed = <<>> THEN UNGROUPED ELSE trimmed
                     IN /\ o.key = Some(folder)
                        /\ o.state = "Processed" =>
                             /\ o.dst \in DOMAIN fs'
                             /\ Len(o.dst) = 2 => o.dst[1] = folder

\* C5, as a property of every behaviour: with skipIfNoPrefix false no file is
\* ever Skipped, and every step of the loop on an eligible file without a key
\* does what C5_NoKeyStep says.
C5_NoKeyHandling ==
  /\ [](~cfg.skip_if_no_prefix => skipped = 0 /\ OutIn(runs, "Skipped") = {})
  /\ [][C5_NoKeyStep]_vars

\* a.xls has no match for the default pattern and was skipped, in place
C5_Witness ==
  /\ pc = "done"
  /\ cfg.use_regex
  /\ cfg.skip_if_no_prefix
  /\ skipped = 1
  /\ \E o \in OutIn(runs, "Skipped") : o.name = N_a_xls
  /\ fs = snap

\* " .xls" has no key and an empty trimmed stem: it went to UNGROUPED
C5_WitnessUngrouped ==
  /\ ~cfg.skip_if_no_prefix
  /\ <<UNGROUPED, N_space_xls>> \in DOMAIN fs

\* C9: main returns 0 exactly when errors is 0 at the end of the pass, that
\* is when no file ended Errored, and 1 otherwise; a status is returned only
\* after the whole listing has been attempted and the END record written.
C9_ExitStatus ==
  /\ pc = "done" =>
       /\ status \in {Some(0), Some(1)}
       /\ status = Some(0) <=> errors = 0
       /\ status = Some(0) <=> OutIn(runs, "Errored") = {}
  /\ status # None =>
       /\ pc = "done"
       /\ todo = {}
       /\ \A n \in ListDir(snap) : \E o \in Out(runs) : o.name = n
       /\ Records("END") = {Len(log)}
       /\ log[Len(log)].counts[3] = errors

\* the failure status was returned by a pass that also placed a file
C9_Witness ==
  /\ pc = "done"
  /\ status = Some(1)
  /\ OutIn(runs, "Processed") # {}

\* the success status was returned
C9_WitnessSuccess ==
  /\ pc = "done"
  /\ status = Some(0)
  /\ OutIn(runs, "Processed") # {}

\* C3: after two passes in copy mode every file of the initial tree is in
\* place and unchanged, and every file the first pass placed is still where
\* it was placed; a file placed by both passes got a second, differently
\* named copy "name(n).ext" in the same folder.
C3_CopyTwice ==
  (cfg.mode = "copy" /\ runs = 2 /\ Ended) =>
    /\ \A p \in DOMAIN fs0 : p \in DOMAIN fs /\ fs[p] = fs0[p]
    /\ \A o1 \in OutIn(1, "Processed") :
         /\ o1.dst \in DOMAIN fs
         /\ o1.dst \notin DOMAIN fs0
         /\ fs[o1.dst] = fs0[<<o1.name>>]
         /\ \E o2 \in OutIn(2, "Processed") :
              /\ o2.name = o1.name
              /\ o2.dst_dir = o1.dst_dir
              /\ o2.dst # o1.dst
              /\ o2.dst \in DOMAIN fs
              /\ fs[o2.dst] = fs0[<<o1.name>>]
              /\ \E n \in 1..Cardinality(DOMAIN fs) :
                   o2.dst = o2.dst_dir \o
                     <<stem(o2.name) \o <<"(">> \o IntToStr(n) \o <<")">>
                         \o suffix(o2.name)>>
    /\ \A o2 \in OutIn(2, "Processed") : \A o \in outcome :
         (o.state = "Processed" /\ o # o2) => o.dst # o2.dst

\* the second copy pass has put a_1(1).xls beside the first pass's a_1.xls
C3_Witness ==
  /\ cfg.mode = "copy"
  /\ runs = 2
  /\ pc = "done"
  /\ <<N_a_1_xls>> \in DOMAIN fs
  /\ <<N_a, N_a_1_xls>> \in DOMAIN fs
  /\ <<N_a, <<"a", "_", "1", "(", "1", ")", ".", "x", "l", "s">>>> \in DOMAIN fs
  /\ <<N_a, N_a_1_xls>> \notin DOMAIN fs0

\* C6: the terminal state of every file and the folder it is placed in are
\* those it gets when it is the first entry handled, whatever was handled
\* before it.
C6_OrderIndependence ==
  \A o \in Out(runs) :
    LET alone == LoopBody(snap, cfg, o.name)
    IN o.state = alone.state /\ o.dst_dir = alone.dst_dir

\* C10: every file that ends Processed has been placed in a direct child
\* folder of the scanned directory, named by its key: never in the scanned
\* directory itself, never outside it.
C10_PlacementInsideSubfolder ==
  \A o \in outcome :
    o.state = "Processed" =>
      /\ o.dst_dir = <<o.key[1]>>
      /\ o.key[1] \notin {Dot, DotDot}
      /\ Len(o.dst) = 2
      /\ o.dst[1] = o.key[1]

====
